---- MODULE Spec2Model ----
(***************************************************************************)
(* RouteGPT backend: the getDirections request pipeline.                   *)
(*                                                                         *)
(* Two getDirections handlers exist in the repository:                     *)
(*   "caching" - the controller that consults routeCache and fans out      *)
(*               extraction and classification with Promise.all;           *)
(*   "plain"   - the controller without a cache, which classifies, then    *)
(*               extracts, and wraps the provider call in an inner try.    *)
(* A request is a slot that moves from one await to the next; each action  *)
(* is the synchronous run of the handler between two awaits.               *)
(*                                                                         *)
(* Three specifications share the variables:                               *)
(*   Spec     - one request at a time through either handler;              *)
(*   SpecPair - two requests in flight in the caching handler;             *)
(*   SpecCalc - one helper function applied to one argument.               *)
(*                                                                         *)
(* A JavaScript string is a sequence of chunks.  Strings that the code     *)
(* lower-cases or trims (queries, classifier replies, labels) are written  *)
(* one character per chunk; messages use whole literals as chunks.         *)
(***************************************************************************)
EXTENDS Integers, Sequences, FiniteSets, TLC

(***************************************************************************)
(* Bounds of the model.                                                    *)
(***************************************************************************)
MaxRequests == 2
MaxTicks == 1

\* the request slots; requests are served one at a time
Req == {1}

(***************************************************************************)
(* String.prototype.toLowerCase and String.prototype.trim.                 *)
(***************************************************************************)
UpperChars == <<"A","B","C","D","E","F","G","H","I","J","K","L","M",
                "N","O","P","Q","R","S","T","U","V","W","X","Y","Z">>
LowerChars == <<"a","b","c","d","e","f","g","h","i","j","k","l","m",
                "n","o","p","q","r","s","t","u","v","w","x","y","z">>
WhiteSpace == {" ", "\n", "\t"}

LowerChar(c) ==
    IF \E i \in 1..Len(UpperChars) : UpperChars[i] = c
    THEN LowerChars[CHOOSE i \in 1..Len(UpperChars) : UpperChars[i] = c]
    ELSE c

ToLowerCase(s) == [i \in 1..Len(s) |-> LowerChar(s[i])]

RECURSIVE TrimStart(_)
TrimStart(s) ==
    IF s # <<>> /\ Head(s) \in WhiteSpace THEN TrimStart(Tail(s)) ELSE s

RECURSIVE TrimEnd(_)
TrimEnd(s) ==
    IF s # <<>> /\ s[Len(s)] \in WhiteSpace
    THEN TrimEnd(SubSeq(s, 1, Len(s) - 1)) ELSE s

Trim(s) == TrimEnd(TrimStart(s))

\* String.prototype.includes
Includes(s, part) ==
    \E i \in 1..(Len(s) - Len(part) + 1) : SubSeq(s, i, i + Len(part) - 1) = part

(***************************************************************************)
(* Values.                                                                 *)
(***************************************************************************)
\* req.body.query: absent, null, or a string
Undefined == [type |-> "undefined", str |-> <<>>]
Null == [type |-> "null", str |-> <<>>]
Str(s) == [type |-> "string", str |-> s]

\* JavaScript truthiness of req.body.query
Falsy(query) == query.type # "string" \/ query.str = <<>>

\* An Error object: its message, its own "status" property and the HTTP
\* status of its "response" property (0: the property is absent).
Err(message, status, responseStatus) ==
    [message |-> message, status |-> status, responseStatus |-> responseStatus]
NoError == Err(<<>>, 0, 0)

\* The state of a promise; cause is the failure of the underlying call,
\* kept when the function absorbs or rewraps it.
Promise(state, value, error, cause) ==
    [state |-> state, value |-> value, error |-> error, cause |-> cause]
NoPromise == Promise("none", <<>>, NoError, NoError)
Pending == Promise("pending", <<>>, NoError, NoError)
Fulfilled(value) == Promise("fulfilled", value, NoError, NoError)
Rejected(error) == Promise("rejected", <<>>, error, error)

\* res.status(code).json(body)
Json(status, body) == [status |-> status, body |-> body]

(***************************************************************************)
(* routeCache = new NodeCache({ stdTTL: 300 }): key -> [v, t], t the       *)
(* expiry time.  Times are in seconds.                                     *)
(***************************************************************************)
StdTTL == 300

NoEntry == [undefined |-> TRUE]

\* an entry that never expires
NeverExpired(entry, time) == FALSE

\* _check: data.t < Date.now()
Expired(entry, time) == entry.t < time

CacheGet(cache, key, time) ==
    IF key \in DOMAIN cache /\ ~Expired(cache[key], time)
    THEN cache[key].v
    ELSE NoEntry

\* what get() met: a live entry, an expired one, or none
CacheLookup(cache, key, time) ==
    IF key \notin DOMAIN cache THEN "absent"
    ELSE IF Expired(cache[key], time) THEN "expired"
    ELSE "hit"

\* get() deletes the entry it finds expired
CacheAfterGet(cache, key, time) ==
    IF key \in DOMAIN cache /\ Expired(cache[key], time)
    THEN [k \in DOMAIN cache \ {key} |-> cache[k]]
    ELSE cache

\* a set that leaves a live entry alone
CacheSetIfAbsent(cache, key, value, time) ==
    IF key \in DOMAIN cache /\ ~Expired(cache[key], time)
    THEN cache
    ELSE [k \in DOMAIN cache \cup {key} |->
            IF k = key THEN [v |-> value, t |-> time + StdTTL] ELSE cache[k]]

CacheSet(cache, key, value, time) ==
    [k \in DOMAIN cache \cup {key} |->
        IF k = key THEN [v |-> value, t |-> time + StdTTL] ELSE cache[k]]

\* the key without the normalisation
CacheKeyRaw(str) == str

\* const cacheKey = query.toLowerCase().trim()
CacheKey(str) == Trim(ToLowerCase(str))

EmptyCache == [k \in {} |-> NoEntry]

(***************************************************************************)
(* What the upstream services can answer.                                  *)
(***************************************************************************)
\* failures of model.generateContent / response.text(): a network failure,
\* or a fetch error, on which the client puts the HTTP status as "status"
FetchFailed == Err(<<"fetch failed">>, 0, 0)
GenAIErrors ==
    { FetchFailed, Err(<<"[429 Too Many Requests] quota">>, 429, 0) }

\* the extraction call: it fails, or replies text that is no JSON, JSON
\* without an origin, or JSON with origin and destination
ExtractReplies ==
    { [kind |-> "error", err |-> FetchFailed] } \cup
    { [kind |-> "text", parsed |-> p] : p \in {"SyntaxError", "noOrigin", "locations"} }

directions == <<"d","i","r","e","c","t","i","o","n","s">>
traffic_check == <<"t","r","a","f","f","i","c","_","c","h","e","c","k">>
duration_check == <<"d","u","r","a","t","i","o","n","_","c","h","e","c","k">>
route_status == <<"r","o","u","t","e","_","s","t","a","t","u","s">>
weather == <<"w","e","a","t","h","e","r">>
constructor == <<"c","o","n","s","t","r","u","c","t","o","r">>
proto == <<"_","_","p","r","o","t","o","_","_">>
toStringName == <<"t","o","S","t","r","i","n","g">>

\* the classification call: it fails, or replies some text
ClassifyTexts ==
    { duration_check, route_status, weather, constructor, proto, toStringName,
      <<" ","T","r","a","f","f","i","c","_","c","h","e","c","k","\n">> }
ClassifyReplies ==
    { [kind |-> "error", err |-> FetchFailed] } \cup
    { [kind |-> "text", text |-> t] : t \in ClassifyTexts }

\* the directions provider: the request is rejected (HTTP error or no
\* connection), or a response arrives whose data may be missing, and whose
\* status may be OK; an OK route may come without steps
MapsErrors ==
    { Err(<<"Request failed with status code 404">>, 0, 404),
      Err(<<"Request failed with status code 403">>, 403, 403) }
ProviderStatuses == {"OK", "NOT_FOUND", "OVER_QUERY_LIMIT"}
MapsReplies ==
    { [kind |-> "rejected", err |-> e, status |-> "", steps |-> FALSE] : e \in MapsErrors } \cup
    { [kind |-> "nodata", err |-> NoError, status |-> "", steps |-> FALSE] } \cup
    { [kind |-> "data", err |-> NoError, status |-> s, steps |-> FALSE] :
        s \in ProviderStatuses \ {"OK"} } \cup
    { [kind |-> "data", err |-> NoError, status |-> "OK", steps |-> b] : b \in BOOLEAN }
NoMapsReply == [kind |-> "none", err |-> NoError, status |-> "", steps |-> FALSE]

\* the formatting call: it fails, or replies some text
FormatTexts == {<<"text one">>}
FormatReplies ==
    { [kind |-> "error", err |-> e] : e \in GenAIErrors } \cup
    { [kind |-> "text", text |-> t] : t \in FormatTexts }

(***************************************************************************)
(* extractLocationsAndMode: the promise it returns for a reply.  The catch *)
(* block reads "response", which is declared inside the try block and is   *)
(* out of scope there: evaluating it throws a ReferenceError, which        *)
(* replaces the error being handled before the rewrapping throw runs.      *)
(***************************************************************************)
ExtractionFailure(reply) ==
    IF reply.kind = "error" THEN reply.err
    ELSE IF reply.parsed = "SyntaxError"
         THEN Err(<<"Unexpected token in JSON">>, 0, 0)
    ELSE IF reply.parsed = "noOrigin"
         THEN Err(<<"Failed to extract valid locations from query">>, 0, 0)
    ELSE NoError

ExtractionCatch(error) ==
    Promise("rejected", <<>>, Err(<<"response is not defined">>, 0, 0), error)

extractLocationsAndMode(reply) ==
    IF ExtractionFailure(reply) # NoError
    THEN ExtractionCatch(ExtractionFailure(reply))
    ELSE Fulfilled(<<"origin", "destination", "mode", "modeConfig">>)

(***************************************************************************)
(* classifyQuery: the reply trimmed and lower-cased, or 'directions' when  *)
(* anything in the try block throws.                                       *)
(***************************************************************************)
classifyQueryThrows(reply) ==
    IF reply.kind = "error"
    THEN Rejected(reply.err)
    ELSE Fulfilled(ToLowerCase(Trim(reply.text)))

classifyQuery(reply) ==
    IF reply.kind = "error"
    THEN Promise("fulfilled", directions, NoError, reply.err)
    ELSE Fulfilled(ToLowerCase(Trim(reply.text)))

(***************************************************************************)
(* The formatter chosen for a query type.                                  *)
(*   caching: { traffic_check: .., duration_check: .., route_status: .. }  *)
(*            [queryType] || formatDirections -- the lookup also finds the *)
(*            properties the object literal inherits from Object.prototype *)
(*   plain:   switch (queryType) { ... default: formatDirections }         *)
(***************************************************************************)
FormattingFunction(queryType) ==
    IF queryType = traffic_check THEN "formatTrafficCheck"
    ELSE IF queryType = duration_check THEN "formatDurationCheck"
    ELSE IF queryType = route_status THEN "formatRouteStatus"
    ELSE IF queryType = constructor THEN "Object"
    ELSE IF queryType = proto THEN "Object.prototype"
    ELSE "formatDirections"

FormatSwitch(queryType) ==
    IF queryType = traffic_check THEN "formatTrafficCheck"
    ELSE IF queryType = duration_check THEN "formatDurationCheck"
    ELSE IF queryType = route_status THEN "formatRouteStatus"
    ELSE "formatDirections"

(***************************************************************************)
(* The promise a formatter returns once its model call has settled.        *)
(*   caching formatDirections: catch returns 'Error formatting directions' *)
(*   plain formatDirections: catch throws 'Failed to format directions: ..'*)
(*   the other three have no try/catch: the error passes through           *)
(***************************************************************************)
FormatDirectionsCaught(error) ==
    Promise("fulfilled", <<"Error formatting directions">>, NoError, error)

formatDirections(reply) ==
    IF reply.kind = "error" THEN FormatDirectionsCaught(reply.err)
    ELSE Fulfilled(reply.text)

formatDirectionsPlain(reply) ==
    IF reply.kind = "error"
    THEN Promise("rejected", <<>>,
                 Err(<<"Failed to format directions: ">> \o reply.err.message, 0, 0),
                 reply.err)
    ELSE Fulfilled(reply.text)

formatOther(reply) ==
    IF reply.kind = "error" THEN Rejected(reply.err) ELSE Fulfilled(reply.text)

Format(handler, formatter, reply) ==
    IF formatter # "formatDirections" THEN formatOther(reply)
    ELSE IF handler = "caching" THEN formatDirections(reply)
    ELSE formatDirectionsPlain(reply)

(***************************************************************************)
(* The catch blocks of the handlers.                                       *)
(***************************************************************************)
\* caching: res.status(error.status || 500).json({error, details})
CatchCaching(error) ==
    Json(IF error.status # 0 THEN error.status ELSE 500,
         [error |-> "Error processing request", details |-> error.message])

\* plain, outer: res.status(500).json({error, details})
CatchOuter(error) ==
    Json(500, [error |-> "Internal server error", details |-> error.message])

\* plain, inner (mapsError): 404 when mapsError.response?.status === 404,
\* else rethrown with a prefix and caught by the outer catch
CatchMaps(mapsError) ==
    IF mapsError.responseStatus = 404
    THEN Json(404, [error |-> "Route not found",
                    details |-> <<"Could not find a valid route between the specified locations">>])
    ELSE CatchOuter(Err(<<"Google Maps API error: ">> \o mapsError.message, 0, 0))

\* throw new Error(`Invalid response: ${directionsResponse.data?.status}`)
InvalidResponse(reply) ==
    Err(<<"Invalid response: ", IF reply.kind = "data" THEN reply.status ELSE "undefined">>, 0, 0)

\* query.toLowerCase() on undefined or null
NoToLowerCase(query) ==
    Err(<<"Cannot read properties of ", query.type, " (reading 'toLowerCase')">>, 0, 0)

(***************************************************************************)
(* State.                                                                  *)
(***************************************************************************)
VARIABLES
    reqs,        \* the requests in progress, one record per slot
    routeCache,  \* the NodeCache instance
    now,         \* Date.now(), in seconds
    ticks,       \* how often the clock has advanced
    started,     \* how many requests have been received
    calc         \* a helper function's argument and, once applied, its result

vars == <<reqs, routeCache, now, ticks, started, calc>>

\* req.body.query of the requests that arrive
Queries ==
    { Undefined, Null, Str(<<>>), Str(<<" ">>), Str(<<"a">>), Str(<<" ", "A">>) }

\* the clock advances to just before or just after an entry's expiry
TickSteps == {299, 301}

\* no helper function is being applied
NoCalc == [fn |-> "none", arg |-> <<>>, applied |-> 0, out |-> <<>>]

NoCalls == [extract |-> 0, classify |-> 0, directions |-> 0, format |-> 0]

Idle ==
    [pc |-> "idle", handler |-> "", query |-> Undefined,
     ext |-> NoPromise, cls |-> NoPromise, maps |-> NoMapsReply,
     lookup |-> "none", formatter |-> "", fmt |-> NoPromise,
     calls |-> NoCalls, res |-> <<>>]

Received(handler, query) == [Idle EXCEPT !.handler = handler, !.query = query]

\* the handler sends a response and returns
Respond(rq, response) == [rq EXCEPT !.pc = "done", !.res = Append(@, response)]

\* const directionsResponse = await mapsClient.directions({ params })
CallDirections(rq) ==
    [rq EXCEPT !.pc = "awaitDirections", !.calls.directions = @ + 1]

\* await formattingFunction(responseData, origin, destination)
CallFormatter(rq, fn) ==
    [rq EXCEPT !.pc = "awaitFormat", !.formatter = fn, !.fmt = Pending,
               !.calls.format = @ + 1]

\* { response: formattedResponse, query_type: queryType }
Body(rq) == [response |-> rq.fmt.value, query_type |-> rq.cls.value]

\* a slot takes a new request once its handler has returned and the calls
\* it started have settled
Free(rq) ==
    /\ rq.pc \in {"idle", "done"}
    /\ rq.ext.state # "pending"
    /\ rq.cls.state # "pending"

Init ==
    /\ reqs = [r \in Req |-> Idle]
    /\ routeCache = EmptyCache
    /\ now = 0
    /\ ticks = 0
    /\ started = 0
    /\ calc = NoCalc

(***************************************************************************)
(* getDirections, caching handler: from the request to the first await.    *)
(***************************************************************************)
getDirections(r, query) ==
    /\ started < MaxRequests
    /\ Free(reqs[r])
    /\ started' = started + 1
    /\ IF query.type # "string"
       THEN \* query.toLowerCase() throws a TypeError
            /\ reqs' = [reqs EXCEPT ![r] =
                  Respond(Received("caching", query), CatchCaching(NoToLowerCase(query)))]
            /\ UNCHANGED routeCache
       ELSE LET cacheKey == CacheKey(query.str)
                cachedResponse == CacheGet(routeCache, cacheKey, now)
                rq == [Received("caching", query) EXCEPT
                          !.lookup = CacheLookup(routeCache, cacheKey, now)]
            IN /\ routeCache' = CacheAfterGet(routeCache, cacheKey, now)
               /\ IF cachedResponse # NoEntry
                  THEN reqs' = [reqs EXCEPT ![r] = Respond(rq, Json(200, cachedResponse))]
                  ELSE IF Falsy(query)
                  THEN reqs' = [reqs EXCEPT ![r] =
                                  Respond(rq, Json(400, [error |-> "Query is required"]))]
                  ELSE \* Promise.all([extractLocationsAndMode(query), classifyQuery(query)])
                       reqs' = [reqs EXCEPT ![r] =
                                  [rq EXCEPT !.pc = "awaitAll",
                                             !.ext = Pending, !.cls = Pending,
                                             !.calls.extract = @ + 1,
                                             !.calls.classify = @ + 1]]
    /\ UNCHANGED <<now, ticks, calc>>

(***************************************************************************)
(* getDirections, plain handler: from the request to the first await.      *)
(***************************************************************************)
getDirectionsPlain(r, query) ==
    /\ started < MaxRequests
    /\ Free(reqs[r])
    /\ started' = started + 1
    /\ LET rq == Received("plain", query) IN
       IF Falsy(query)
       THEN reqs' = [reqs EXCEPT ![r] =
                       Respond(rq, Json(400, [error |-> "Query is required"]))]
       ELSE \* const queryType = await classifyQuery(query)
            reqs' = [reqs EXCEPT ![r] =
                       [rq EXCEPT !.pc = "awaitClassify", !.cls = Pending,
                                  !.calls.classify = @ + 1]]
    /\ UNCHANGED <<routeCache, now, ticks, calc>>

\* await Promise.all([extraction, classification]): rejected as soon as one
\* of the two is rejected, fulfilled once both are fulfilled
PromiseAllEager(ext, cls) ==
    IF ext.state = "rejected" \/ cls.state = "rejected" THEN "rejected"
    ELSE IF ext.state = "fulfilled" THEN "fulfilled"
    ELSE "pending"

PromiseAll(ext, cls) ==
    IF ext.state = "rejected" \/ cls.state = "rejected" THEN "rejected"
    ELSE IF ext.state = "fulfilled" /\ cls.state = "fulfilled" THEN "fulfilled"
    ELSE "pending"

(***************************************************************************)
(* The extraction call settles.                                            *)
(***************************************************************************)
ExtractionSettles(r, reply) ==
    /\ reqs[r].ext.state = "pending"
    /\ LET rq == [reqs[r] EXCEPT !.ext = extractLocationsAndMode(reply)] IN
       reqs' = [reqs EXCEPT ![r] =
          IF rq.pc = "awaitAll"
          THEN IF PromiseAll(rq.ext, rq.cls) = "rejected"
               THEN Respond(rq, CatchCaching(rq.ext.error))
               ELSE IF PromiseAll(rq.ext, rq.cls) = "fulfilled" THEN CallDirections(rq)
               ELSE rq
          ELSE IF rq.pc = "awaitExtract"
          THEN IF rq.ext.state = "rejected" THEN Respond(rq, CatchOuter(rq.ext.error))
               ELSE CallDirections(rq)
          ELSE rq]
    /\ UNCHANGED <<routeCache, now, ticks, started, calc>>

(***************************************************************************)
(* The classification call settles.                                        *)
(***************************************************************************)
ClassificationSettles(r, reply) ==
    /\ reqs[r].cls.state = "pending"
    /\ LET rq == [reqs[r] EXCEPT !.cls = classifyQuery(reply)] IN
       reqs' = [reqs EXCEPT ![r] =
          IF rq.pc = "awaitAll"
          THEN IF PromiseAll(rq.ext, rq.cls) = "rejected"
               THEN Respond(rq, CatchCaching(rq.cls.error))
               ELSE IF PromiseAll(rq.ext, rq.cls) = "fulfilled" THEN CallDirections(rq)
               ELSE rq
          ELSE IF rq.pc = "awaitClassify"
          THEN IF rq.cls.state = "rejected" THEN Respond(rq, CatchOuter(rq.cls.error))
               ELSE \* await extractLocationsAndMode(query)
                    [rq EXCEPT !.pc = "awaitExtract", !.ext = Pending,
                               !.calls.extract = @ + 1]
          ELSE rq]
    /\ UNCHANGED <<routeCache, now, ticks, started, calc>>

(***************************************************************************)
(* The directions provider settles; the handler runs up to the formatter's *)
(* model call, or to its end when no model call is made.                   *)
(***************************************************************************)
\* the response alone, nothing stored
RespondWithoutStore(r, rq) ==
    /\ routeCache' = routeCache
    /\ reqs' = [reqs EXCEPT ![r] = Respond(rq, Json(200, Body(rq)))]

\* routeCache.set(cacheKey, {...}); res.json({...})
StoreAndRespond(r, rq) ==
    /\ routeCache' = CacheSet(routeCache, CacheKey(rq.query.str), Body(rq), now)
    /\ reqs' = [reqs EXCEPT ![r] = Respond(rq, Json(200, Body(rq)))]

DirectionsSettles(r, reply) ==
    /\ reqs[r].pc = "awaitDirections"
    /\ LET rq == [reqs[r] EXCEPT !.maps = reply]
           failed == reply.kind # "data" \/ reply.status # "OK"
           error == IF reply.kind = "rejected" THEN reply.err ELSE InvalidResponse(reply)
       IN
       IF rq.handler = "caching"
       THEN LET fn == FormattingFunction(rq.cls.value) IN
            IF failed
            THEN /\ reqs' = [reqs EXCEPT ![r] = Respond(rq, CatchCaching(error))]
                 /\ UNCHANGED routeCache
            ELSE IF fn = "Object"
            THEN \* Object(responseData, origin, destination) is responseData
                 StoreAndRespond(r, [rq EXCEPT !.formatter = fn,
                                               !.fmt = Fulfilled(<<"[object responseData]">>)])
            ELSE IF fn = "Object.prototype"
            THEN /\ reqs' = [reqs EXCEPT ![r] =
                        Respond([rq EXCEPT !.formatter = fn],
                                CatchCaching(Err(<<"formattingFunction is not a function">>, 0, 0)))]
                 /\ UNCHANGED routeCache
            ELSE IF fn = "formatDirections" /\ ~reply.steps
            THEN \* steps[0].instructions throws inside formatDirections' try
                 StoreAndRespond(r, [rq EXCEPT !.formatter = fn,
                     !.fmt = FormatDirectionsCaught(
                         Err(<<"Cannot read properties of undefined (reading 'instructions')">>, 0, 0))])
            ELSE /\ reqs' = [reqs EXCEPT ![r] = CallFormatter(rq, fn)]
                 /\ UNCHANGED routeCache
       ELSE /\ reqs' = [reqs EXCEPT ![r] =
                   IF failed THEN Respond(rq, CatchMaps(error))
                   ELSE CallFormatter(rq, FormatSwitch(rq.cls.value))]
            /\ UNCHANGED routeCache
    /\ UNCHANGED <<now, ticks, started, calc>>

(***************************************************************************)
(* The formatter's model call settles; the handler runs to its end.        *)
(***************************************************************************)
FormattingSettles(r, reply) ==
    /\ reqs[r].pc = "awaitFormat"
    /\ LET rq == [reqs[r] EXCEPT !.fmt = Format(reqs[r].handler, reqs[r].formatter, reply)] IN
       IF rq.handler = "caching"
       THEN IF rq.fmt.state = "fulfilled"
            THEN StoreAndRespond(r, rq)
            ELSE /\ reqs' = [reqs EXCEPT ![r] = Respond(rq, CatchCaching(rq.fmt.error))]
                 /\ UNCHANGED routeCache
       ELSE /\ reqs' = [reqs EXCEPT ![r] =
                   IF rq.fmt.state = "fulfilled"
                   THEN Respond(rq, Json(200, Body(rq)))
                   ELSE Respond(rq, CatchMaps(rq.fmt.error))]
            /\ UNCHANGED routeCache
    /\ UNCHANGED <<now, ticks, started, calc>>

(***************************************************************************)
(* Time passes; NodeCache's periodic check deletes the expired entries.    *)
(***************************************************************************)
Tick(d) ==
    /\ ticks < MaxTicks
    /\ ticks' = ticks + 1
    /\ now' = now + d
    /\ UNCHANGED <<reqs, routeCache, started, calc>>

CheckData ==
    /\ \E k \in DOMAIN routeCache : Expired(routeCache[k], now)
    /\ routeCache' = [k \in {j \in DOMAIN routeCache : ~Expired(routeCache[j], now)} |->
                        routeCache[k]]
    /\ UNCHANGED <<reqs, now, ticks, started, calc>>

Next ==
    \/ \E r \in Req, q \in Queries : getDirections(r, q)
    \/ \E r \in Req, q \in Queries : getDirectionsPlain(r, q)
    \/ \E r \in Req, reply \in ExtractReplies : ExtractionSettles(r, reply)
    \/ \E r \in Req, reply \in ClassifyReplies : ClassificationSettles(r, reply)
    \/ \E r \in Req, reply \in MapsReplies : DirectionsSettles(r, reply)
    \/ \E r \in Req, reply \in FormatReplies : FormattingSettles(r, reply)
    \/ \E d \in TickSteps : Tick(d)
    \/ CheckData

Spec == Init /\ [][Next]_vars

(***************************************************************************)
(* Two requests in flight in the caching handler.  Node runs one handler   *)
(* at a time, from one await to the next, so the steps of the two requests *)
(* interleave at the awaits.  The plain handler has no shared state and is *)
(* left out; each upstream call either fails or replies one of a few       *)
(* answers, and the formatting model has two different texts to give.      *)
(***************************************************************************)
Pair == {1, 2}

\* two spellings of one cache key, and another key
PairQueries == { Str(<<"a">>), Str(<<" ", "A">>), Str(<<"b">>) }

PairExtractReplies ==
    { [kind |-> "error", err |-> FetchFailed], [kind |-> "text", parsed |-> "locations"] }
PairClassifyReplies ==
    { [kind |-> "text", text |-> t] : t \in {route_status, constructor} }
PairMapsReplies ==
    { [kind |-> "data", err |-> NoError, status |-> "NOT_FOUND", steps |-> FALSE],
      [kind |-> "data", err |-> NoError, status |-> "OK", steps |-> TRUE] }
PairFormatTexts == {<<"text one">>, <<"text two">>}
PairFormatReplies ==
    { [kind |-> "error", err |-> FetchFailed] } \cup
    { [kind |-> "text", text |-> t] : t \in PairFormatTexts }

InitPair ==
    /\ reqs = [r \in Pair |-> Idle]
    /\ routeCache = EmptyCache
    /\ now = 0
    /\ ticks = 0
    /\ started = 0
    /\ calc = NoCalc

NextPair ==
    \/ \E r \in Pair, q \in PairQueries : getDirections(r, q)
    \/ \E r \in Pair, reply \in PairExtractReplies : ExtractionSettles(r, reply)
    \/ \E r \in Pair, reply \in PairClassifyReplies : ClassificationSettles(r, reply)
    \/ \E r \in Pair, reply \in PairMapsReplies : DirectionsSettles(r, reply)
    \/ \E r \in Pair, reply \in PairFormatReplies : FormattingSettles(r, reply)
    \/ \E d \in TickSteps : Tick(d)
    \/ CheckData

SpecPair == InitPair /\ [][NextPair]_vars

(***************************************************************************)
(* The helper functions, applied to arguments drawn from bounded sets.     *)
(* A number that may be missing (an optional chain that ended in           *)
(* undefined) is NoNumber.                                                 *)
(***************************************************************************)
MaxDuration == 20
MaxKm == 31

NoNumber == [type |-> "undefined", num |-> 0]
Num(n) == [type |-> "number", num |-> n]

\* JavaScript truthiness of a number that may be missing
Truthy(x) == x.type = "number" /\ x.num # 0

\* route.legs?.[0]?.duration?.value and ...duration_in_traffic?.value, in
\* seconds
Durations == {NoNumber} \cup {Num(n) : n \in 0..MaxDuration}

\* (difference / normalDuration) * 100 <= c, for normalDuration > 0
PercentageIncreaseLeq(normalDuration, trafficDuration, c) ==
    (trafficDuration - normalDuration) * 100 <= c * normalDuration

\* the thresholds taken as exclusive
getTrafficStatusStrict(normalDuration, trafficDuration) ==
    IF ~Truthy(normalDuration) \/ ~Truthy(trafficDuration) THEN "Unknown"
    ELSE IF (trafficDuration.num - normalDuration.num) * 100 < 10 * normalDuration.num
         THEN "Light traffic"
    ELSE IF (trafficDuration.num - normalDuration.num) * 100 < 30 * normalDuration.num
         THEN "Moderate traffic"
    ELSE IF (trafficDuration.num - normalDuration.num) * 100 < 50 * normalDuration.num
         THEN "Heavy traffic"
    ELSE "Severe traffic"

getTrafficStatus(normalDuration, trafficDuration) ==
    IF ~Truthy(normalDuration) \/ ~Truthy(trafficDuration) THEN "Unknown"
    ELSE IF PercentageIncreaseLeq(normalDuration.num, trafficDuration.num, 10)
         THEN "Light traffic"
    ELSE IF PercentageIncreaseLeq(normalDuration.num, trafficDuration.num, 30)
         THEN "Moderate traffic"
    ELSE IF PercentageIncreaseLeq(normalDuration.num, trafficDuration.num, 50)
         THEN "Heavy traffic"
    ELSE "Severe traffic"

\* distance?.value, in metres: around every whole kilometre up to MaxKm
Distances ==
    {NoNumber} \cup {Num(k * 1000 + j) : k \in 0..MaxKm, j \in {0, 1, 999}}

\* the thresholds taken as inclusive
getDistanceContextInclusive(distance) ==
    LET meters == IF Truthy(distance) THEN distance.num ELSE 0 IN
    IF meters <= 3 * 1000 THEN "nearby"
    ELSE IF meters <= 10 * 1000 THEN "short"
    ELSE IF meters <= 30 * 1000 THEN "medium"
    ELSE "long"

\* kilometers = meters / 1000, and kilometers < c is meters < c * 1000
getDistanceContext(distance) ==
    LET meters == IF Truthy(distance) THEN distance.num ELSE 0 IN
    IF meters < 3 * 1000 THEN "nearby"
    ELSE IF meters < 10 * 1000 THEN "short"
    ELSE IF meters < 30 * 1000 THEN "medium"
    ELSE "long"

\* the names are written one character per chunk
lagosAreas ==
  { <<"I","k","e","j","a">>,
    <<"V","i","c","t","o","r","i","a"," ","I","s","l","a","n","d">>,
    <<"L","e","k","k","i">>,
    <<"A","j","a","h">>,
    <<"I","k","o","y","i">>,
    <<"S","u","r","u","l","e","r","e">>,
    <<"Y","a","b","a">>,
    <<"A","p","a","p","a">>,
    <<"O","s","h","o","d","i">>,
    <<"M","u","s","h","i","n">>,
    <<"M","a","r","y","l","a","n","d">>,
    <<"O","j","o","t","a">>,
    <<"O","g","u","d","u">>,
    <<"G","b","a","g","a","d","a">>,
    <<"M","a","g","o","d","o">>,
    <<"O","j","o","d","u">>,
    <<"B","e","r","g","e","r">>,
    <<"A","g","e","g","e">>,
    <<"I","k","o","r","o","d","u">>,
    <<"E","p","e">> }

lagos == <<"l","a","g","o","s">>
nigeria == <<"n","i","g","e","r","i","a">>

\* a match that compares the characters as they are
addLocationQualifierCaseSensitive(location) ==
    IF /\ \E area \in lagosAreas : Includes(location, area)
       /\ ~Includes(location, lagos)
    THEN location \o <<","," ","L","a","g","o","s",","," ","N","i","g","e","r","i","a">>
    ELSE IF ~Includes(location, nigeria)
    THEN location \o <<","," ","N","i","g","e","r","i","a">>
    ELSE location

addLocationQualifier(location) ==
    IF \E area \in lagosAreas :
          /\ Includes(ToLowerCase(location), ToLowerCase(area))
          /\ ~Includes(ToLowerCase(location), lagos)
    THEN location \o <<","," ","L","a","g","o","s",","," ","N","i","g","e","r","i","a">>
    ELSE IF ~Includes(ToLowerCase(location), nigeria)
    THEN location \o <<","," ","N","i","g","e","r","i","a">>
    ELSE location

\* the locations the extraction model may name: up to MaxParts pieces put
\* together
MaxParts == 3
Pieces ==
  { <<"I","k","e","j","a">>,
    <<"L","e","k","k","i">>,
    <<"e","p","e">>,
    <<"V","I","C","T","O","R","I","A"," ","I","S","L","A","N","D">>,
    <<"P","a","r","i","s">>,
    <<","," ">>,
    <<"L","a","g","o","s">>,
    <<"N","i","g","e","r","i","a">>,
    <<"E","p">>,
    <<"e">>,
    <<"L","a","g">>,
    <<"o","s">> }

RECURSIVE Joined(_)
Joined(n) ==
    IF n = 0 THEN {<<>>}
    ELSE Joined(n - 1) \cup {s \o p : s \in Joined(n - 1), p \in Pieces}

\* origin and destination are non-empty (an empty one fails the extraction)
Locations == Joined(MaxParts) \ {<<>>}

\* parsedResponse.mode as the extraction model replies it: missing, null,
\* empty, one of the four the prompt asks for, or something else
ModeReplies ==
    { Undefined, Null, Str(<<>>) } \cup
    { Str(<<m>>) : m \in {"car", "bike", "bus", "train",
                          "walk", "motorcycle", "Car", "constructor"} }

NoConfig == [mode |-> "", avoid |-> <<>>, transit_mode |-> <<>>]

modeMapping ==
    [m \in {<<"bike">>, <<"car">>, <<"bus">>, <<"train">>} |->
        IF m = <<"bike">> THEN [NoConfig EXCEPT !.mode = "DRIVING", !.avoid = <<"highways">>]
        ELSE IF m = <<"car">> THEN [NoConfig EXCEPT !.mode = "DRIVING"]
        ELSE IF m = <<"bus">> THEN [NoConfig EXCEPT !.mode = "TRANSIT", !.transit_mode = <<"BUS">>]
        ELSE [NoConfig EXCEPT !.mode = "TRANSIT", !.transit_mode = <<"TRAIN">>]]

\* property names every object literal inherits from Object.prototype
Inherited == {<<"constructor">>, <<"__proto__">>, <<"toString">>}

\* parsedResponse.mode = parsedResponse.mode || 'car'
ExtractedMode(reply) == IF Falsy(reply) THEN <<"car">> ELSE reply.str

\* modeMapping[parsedResponse.mode] || modeMapping.car; an inherited
\* property is truthy and has no own enumerable property to spread
ModeConfig(mode) ==
    IF mode \in DOMAIN modeMapping THEN modeMapping[mode]
    ELSE IF mode \in Inherited THEN NoConfig
    ELSE modeMapping[<<"car">>]

\* what getDirections takes from the extraction: the mode it reports to the
\* formatters (responseData.mode) and the travel parameters it spreads into
\* params (...modeConfig)
ModeAndParams(reply) ==
    [mode |-> ExtractedMode(reply), params |-> ModeConfig(ExtractedMode(reply))]

(***************************************************************************)
(* One helper function is applied to one argument.                         *)
(***************************************************************************)
Call(fn, arg) == [fn |-> fn, arg |-> arg, applied |-> 0, out |-> <<>>]

CalcInputs ==
    { Call("getTrafficStatus", <<n, t>>) : n \in Durations, t \in Durations } \cup
    { Call("getDistanceContext", d) : d \in Distances } \cup
    { Call("addLocationQualifier", l) : l \in Locations } \cup
    { Call("extractLocationsAndMode", m) : m \in ModeReplies }

InitCalc ==
    /\ reqs = [r \in Req |-> Idle]
    /\ routeCache = EmptyCache
    /\ now = 0
    /\ ticks = 0
    /\ started = 0
    /\ calc \in CalcInputs

Return(value) ==
    /\ calc' = [calc EXCEPT !.applied = @ + 1, !.out = Append(@, value)]
    /\ UNCHANGED <<reqs, routeCache, now, ticks, started>>

CallTrafficStatus ==
    /\ calc.fn = "getTrafficStatus" /\ calc.applied = 0
    /\ Return(getTrafficStatus(calc.arg[1], calc.arg[2]))

CallDistanceContext ==
    /\ calc.fn = "getDistanceContext" /\ calc.applied = 0
    /\ Return(getDistanceContext(calc.arg))

\* the function applied to a location, and once more to its own result
CallLocationQualifier ==
    /\ calc.fn = "addLocationQualifier" /\ calc.applied < 2
    /\ Return(addLocationQualifier(IF calc.applied = 0 THEN calc.arg ELSE calc.out[1]))

CallModeAndParams ==
    /\ calc.fn = "extractLocationsAndMode" /\ calc.applied = 0
    /\ Return(ModeAndParams(calc.arg))

NextCalc ==
    \/ CallTrafficStatus
    \/ CallDistanceContext
    \/ CallLocationQualifier
    \/ CallModeAndParams

SpecCalc == InitCalc /\ [][NextCalc]_vars

(***************************************************************************)
(* Properties.                                                             *)
(***************************************************************************)
Done(r) == reqs[r].pc = "done"

\* the response a finished request sent
Sent(r) == reqs[r].res[1]

\* the request received in this step, if slot r took it
Arrives(r) == started' = started + 1 /\ reqs'[r] # reqs[r]

\* the entry of key k was written in this step
Written(k) == k \notin DOMAIN routeCache \/ routeCache'[k] # routeCache[k]

ExtractionOk(rq) == rq.ext.state = "fulfilled"
DirectionsOk(rq) == rq.maps.kind = "data" /\ rq.maps.status = "OK"
FormattingOk(rq) == rq.fmt.state = "fulfilled" /\ rq.fmt.cause = NoError
ClassifierFailed(rq) == rq.cls.cause # NoError

\* C1: a request without a usable query (absent, null or empty) is
\* answered 400 {error: 'Query is required'}, whatever the cache holds.
C1_MissingQueryIs400 ==
    \A r \in Req :
        (Done(r) /\ Falsy(reqs[r].query)) =>
            reqs[r].res = <<Json(400, [error |-> "Query is required"])>>

\* C2: a request to the caching handler whose lower-cased, trimmed query has
\* an entry that has not yet expired is answered in the same step with
\* exactly the stored body, and no upstream call is made for it.
C2_CacheHitServesStoredBody ==
    [][\A r \in Req :
        LET q == reqs'[r].query
            k == Trim(ToLowerCase(q.str))
        IN (/\ Arrives(r)
            /\ reqs'[r].handler = "caching"
            /\ q.type = "string"
            /\ k \in DOMAIN routeCache
            /\ now < routeCache[k].t)
           => /\ reqs'[r].pc = "done"
              /\ reqs'[r].res = <<Json(200, routeCache[k].v)>>
              /\ reqs'[r].calls = NoCalls]_vars

\* a query that differs from its key was answered from the cache
C2_Witness ==
    \E r \in Req :
        /\ Done(r)
        /\ reqs[r].lookup = "hit"
        /\ reqs[r].query.str = <<" ", "A">>
        /\ Sent(r).status = 200
        /\ reqs[r].calls = NoCalls

ProviderNotFound(status) == status \in {"NOT_FOUND", "ZERO_RESULTS"}

\* C3: when the provider answers with a status other than 'OK', the
\* response is 404 if the status signals not-found and 500 otherwise, and
\* the provider status appears in 'details'.
C3_ProviderStatusIs404Or500 ==
    \A r \in Req :
        (Done(r) /\ reqs[r].maps.kind = "data" /\ reqs[r].maps.status # "OK") =>
            /\ Sent(r).status = IF ProviderNotFound(reqs[r].maps.status) THEN 404 ELSE 500
            /\ "details" \in DOMAIN Sent(r).body
            /\ Includes(Sent(r).body.details, <<reqs[r].maps.status>>)

\* C4: when the formatter fails (its model call fails, or it throws while
\* building its prompt), the request ends with a 500 response.
C4_FormatterFailureIs500 ==
    \A r \in Req :
        (Done(r) /\ reqs[r].fmt.cause # NoError) => Sent(r).status = 500

\* C5: every entry written to routeCache is the body of a request whose
\* extraction, route fetch and formatting all succeeded.
C5_OnlyCleanResultsCached ==
    [][\A k \in DOMAIN routeCache' :
        Written(k) =>
            \E r \in Req :
                /\ reqs[r].pc # "done" /\ reqs'[r].pc = "done"
                /\ ExtractionOk(reqs'[r])
                /\ DirectionsOk(reqs'[r])
                /\ FormattingOk(reqs'[r])
                /\ routeCache'[k].v = Body(reqs'[r])]_vars

ExtractionMessage(rq) ==
    <<"Failed to extract locations and mode: ">> \o rq.ext.cause.message

\* C6: when extraction fails, extractLocationsAndMode rejects with
\* 'Failed to extract locations and mode: ' followed by the original
\* message, and the response is 500 with that message in 'details'.
C6_ExtractionErrorIsWrapped ==
    \A r \in Req :
        reqs[r].ext.state = "rejected" =>
            /\ reqs[r].ext.error.message = ExtractionMessage(reqs[r])
            /\ Done(r) => /\ Sent(r).status = 500
                          /\ Sent(r).body.details = ExtractionMessage(reqs[r])

\* C7: classifyQuery never rejects; when its model call fails it yields
\* 'directions', and a request whose extraction, route fetch and formatting
\* succeed is then answered 200 with query_type 'directions'.
C7_ClassifierFailureDegrades ==
    \A r \in Req :
        /\ reqs[r].cls.state # "rejected"
        /\ ClassifierFailed(reqs[r]) =>
              /\ reqs[r].cls.state = "fulfilled"
              /\ reqs[r].cls.value = directions
        /\ (/\ Done(r)
            /\ ClassifierFailed(reqs[r])
            /\ ExtractionOk(reqs[r])
            /\ DirectionsOk(reqs[r])
            /\ FormattingOk(reqs[r]))
           => reqs[r].res =
                <<Json(200, [response |-> reqs[r].fmt.value, query_type |-> directions])>>

\* a request was answered 200 although its classification call failed
C7_Witness ==
    \E r \in Req :
        /\ Done(r)
        /\ ClassifierFailed(reqs[r])
        /\ reqs[r].calls.format = 1
        /\ FormattingOk(reqs[r])
        /\ Sent(r).status = 200
        /\ Sent(r).body.query_type = directions

KnownLabels == {traffic_check, duration_check, route_status}

\* C8: for every classifier label other than traffic_check, duration_check
\* and route_status, the handler dispatches to formatDirections and, the
\* formatter succeeding, the request completes without an error.
C8_UnknownLabelUsesFormatDirections ==
    \A r \in Req :
        (/\ Done(r)
         /\ DirectionsOk(reqs[r])
         /\ reqs[r].cls.value \notin KnownLabels)
        => /\ reqs[r].formatter = "formatDirections"
           /\ reqs[r].fmt.cause = NoError => Sent(r).status = 200

\* C9: a finished request has sent exactly one response: a success body
\* {response, query_type}, or an error body with status 400, 404 or 500.
C9_OneResponseKnownStatus ==
    \A r \in Req :
        Done(r) =>
            /\ Len(reqs[r].res) = 1
            /\ \/ /\ Sent(r).status = 200
                  /\ DOMAIN Sent(r).body = {"response", "query_type"}
               \/ /\ Sent(r).status \in {400, 404, 500}
                  /\ "error" \in DOMAIN Sent(r).body

FiveMinutes == 300

\* C10: an entry is stamped with its insertion time plus five minutes; it
\* stays in the cache until then; a lookup of its key before that time
\* returns it, and a lookup after that time finds nothing, so that the
\* request runs the pipeline from its start.
C10_EntryLivesFiveMinutes ==
    [][/\ \A k \in DOMAIN routeCache' :
            Written(k) => routeCache'[k].t = now + FiveMinutes
       /\ \A k \in DOMAIN routeCache :
            now' <= routeCache[k].t => k \in DOMAIN routeCache'
       /\ \A r \in Req :
            LET q == reqs'[r].query
                k == Trim(ToLowerCase(q.str))
            IN (/\ Arrives(r)
                /\ reqs'[r].handler = "caching"
                /\ q.type = "string"
                /\ k \in DOMAIN routeCache)
               => /\ now < routeCache[k].t =>
                        /\ reqs'[r].lookup = "hit"
                        /\ reqs'[r].res = <<Json(200, routeCache[k].v)>>
                  /\ now > routeCache[k].t =>
                        /\ reqs'[r].lookup = "expired"
                        /\ IF Falsy(q)
                           THEN reqs'[r].res = <<Json(400, [error |-> "Query is required"])>>
                           ELSE /\ reqs'[r].pc = "awaitAll"
                                /\ reqs'[r].res = <<>>
                                /\ reqs'[r].calls =
                                     [NoCalls EXCEPT !.extract = 1, !.classify = 1]]_vars

\* a request met an expired entry, ran the pipeline and stored again
C10_Witness ==
    \E r \in Req :
        /\ Done(r)
        /\ reqs[r].lookup = "expired"
        /\ reqs[r].calls = [extract |-> 1, classify |-> 1, directions |-> 1, format |-> 1]
        /\ Sent(r).status = 200
        /\ CacheKey(reqs[r].query.str) \in DOMAIN routeCache
        /\ routeCache[CacheKey(reqs[r].query.str)].t = now + FiveMinutes

\* the request missed the cache and was answered 200
SucceededOnMiss(rq) ==
    /\ rq.pc = "done"
    /\ rq.lookup # "hit"
    /\ rq.res # <<>>
    /\ rq.res[1].status = 200

OneCallEach == [extract |-> 1, classify |-> 1, directions |-> 1, format |-> 1]

\* C11: no upstream call is made twice for one request (nothing is retried,
\* also after a failure), and a request that misses the cache and succeeds
\* has made exactly one extraction, one classification, one directions and
\* one formatting model call.
C11_EachCallExactlyOnce ==
    \A r \in Req :
        /\ \A kind \in DOMAIN NoCalls : reqs[r].calls[kind] <= 1
        /\ SucceededOnMiss(reqs[r]) => reqs[r].calls = OneCallEach

\* the caching handler is past `await Promise.all` for a request that
\* started its two model calls
PastFanOut(rq) ==
    /\ rq.handler = "caching"
    /\ rq.calls.extract = 1
    /\ rq.pc # "awaitAll"

Settled(p) == p.state \in {"fulfilled", "rejected"}

\* C12 (as stated): in the caching handler the extraction and the
\* classification call are started together, and the handler takes no
\* further step (no route fetch, no response) until both calls have
\* completed, also when the extraction call fails while the classification
\* call is still pending.
C12_HandlerWaitsForBoth ==
    \A r \in Req :
        /\ (reqs[r].handler = "caching" /\ reqs[r].pc = "awaitAll") =>
              /\ reqs[r].calls.extract = 1 /\ reqs[r].calls.classify = 1
              /\ reqs[r].calls.directions = 0 /\ reqs[r].res = <<>>
        /\ PastFanOut(reqs[r]) => Settled(reqs[r].ext) /\ Settled(reqs[r].cls)

\* C12 (amended): the two calls are started together; the handler fetches
\* no route and sends no response while both are unsettled, and it goes on
\* to the route fetch only after both have been fulfilled. A rejection ends
\* the wait at once: when the extraction call fails while the classification
\* call is still pending, the handler sends its error response without
\* waiting for the classification call.
C12_HandlerWaitsUnlessRejected ==
    \A r \in Req :
        /\ (reqs[r].handler = "caching" /\ reqs[r].pc = "awaitAll") =>
              /\ reqs[r].calls.extract = 1 /\ reqs[r].calls.classify = 1
              /\ reqs[r].calls.directions = 0 /\ reqs[r].res = <<>>
              /\ reqs[r].ext.state # "rejected" /\ reqs[r].cls.state # "rejected"
        /\ (PastFanOut(reqs[r]) /\ reqs[r].calls.directions > 0) =>
              reqs[r].ext.state = "fulfilled" /\ reqs[r].cls.state = "fulfilled"
        /\ (PastFanOut(reqs[r]) /\ ~(Settled(reqs[r].ext) /\ Settled(reqs[r].cls))) =>
              /\ reqs[r].ext.state = "rejected" /\ reqs[r].cls.state = "pending"
              /\ reqs[r].pc = "done"
              /\ reqs[r].calls.directions = 0
              /\ reqs[r].res = <<CatchCaching(reqs[r].ext.error)>>

C12_Witness ==
    \E r \in Req :
        /\ PastFanOut(reqs[r])
        /\ reqs[r].ext.state = "rejected"
        /\ reqs[r].cls.state = "pending"
        /\ reqs[r].res = <<CatchCaching(reqs[r].ext.error)>>

Formatters ==
    {"formatDirections", "formatTrafficCheck", "formatDurationCheck", "formatRouteStatus"}

\* the request went through the cache lookup and missed
Missed(rq) == rq.handler = "caching" /\ rq.lookup \in {"absent", "expired"}

InFlight(rq) ==
    rq.pc \in {"awaitAll", "awaitDirections", "awaitFormat"}

\* the request missed the cache and is answered 200 with a formatter's text
\* in this step
Completes(r) ==
    /\ reqs[r].pc # "done"
    /\ Missed(reqs'[r])
    /\ SucceededOnMiss(reqs'[r])
    /\ reqs'[r].formatter \in Formatters

SameKey(p, q) ==
    /\ p.query.type = "string" /\ q.query.type = "string"
    /\ Trim(ToLowerCase(p.query.str)) = Trim(ToLowerCase(q.query.str))

C14_StoredWhenSent ==
    [][\A r \in Pair :
        LET k == Trim(ToLowerCase(reqs[r].query.str)) IN
        (/\ reqs[r].pc # "done"
         /\ Missed(reqs'[r])
         /\ SucceededOnMiss(reqs'[r]))
        =>
        /\ k \in DOMAIN routeCache'
        /\ routeCache'[k].v = reqs'[r].res[1].body
        /\ routeCache'[k].t = now + StdTTL
        /\ Len(reqs'[r].res) = 1
        /\ \A o \in Pair \ {r} : reqs'[o] = reqs[o]
    ]_vars

\* a request has just been answered 200 on a miss while the other request,
\* with the same key, is still waiting for an upstream call
C14_Witness ==
    \E r \in Pair : \E o \in Pair \ {r} :
        /\ Missed(reqs[r]) /\ SucceededOnMiss(reqs[r])
        /\ InFlight(reqs[o]) /\ SameKey(reqs[r], reqs[o])
        /\ routeCache[Trim(ToLowerCase(reqs[r].query.str))].v = reqs[r].res[1].body

\* a duration that is absent or zero
NoDuration(x) == x.type = "undefined" \/ x.num = 0

Rank(status) ==
    IF status = "Light traffic" THEN 1
    ELSE IF status = "Moderate traffic" THEN 2
    ELSE IF status = "Heavy traffic" THEN 3
    ELSE IF status = "Severe traffic" THEN 4
    ELSE 0

\* C15: getTrafficStatus returns 'Unknown' exactly when one of the two
\* durations is absent or zero; otherwise, with p the increase of the
\* traffic duration over the normal one in percent of the normal one, it
\* returns Light for p <= 10, Moderate for 10 < p <= 30, Heavy for
\* 30 < p <= 50 and Severe for p > 50, so a larger p never gives a lower
\* bucket.
C15_TrafficStatusBuckets ==
    (calc.fn = "getTrafficStatus" /\ calc.applied = 1) =>
        LET normal == calc.arg[1]
            traffic == calc.arg[2]
            n == normal.num
            hundredP == (traffic.num - normal.num) * 100   \* p * n
            status == calc.out[1]
        IN /\ status = "Unknown" <=> (NoDuration(normal) \/ NoDuration(traffic))
           /\ ~(NoDuration(normal) \/ NoDuration(traffic)) =>
                /\ status = "Light traffic" <=> hundredP <= 10 * n
                /\ status = "Moderate traffic" <=> (10 * n < hundredP /\ hundredP <= 30 * n)
                /\ status = "Heavy traffic" <=> (30 * n < hundredP /\ hundredP <= 50 * n)
                /\ status = "Severe traffic" <=> 50 * n < hundredP
                /\ \A n2 \in 1..MaxDuration, t2 \in 1..MaxDuration :
                      (traffic.num - n) * n2 <= (t2 - n2) * n =>
                          Rank(status) <= Rank(getTrafficStatus(Num(n2), Num(t2)))

\* the function has been applied at a threshold: an increase of exactly
\* 50 percent is still Heavy
C15_Witness ==
    /\ calc.fn = "getTrafficStatus" /\ calc.applied = 1
    /\ calc.arg = <<Num(10), Num(15)>>
    /\ calc.out = <<"Heavy traffic">>

\* C16: getDistanceContext buckets a distance d in metres, a missing
\* distance counting as 0: 'nearby' exactly for d < 3000, 'short' for
\* 3000 <= d < 10000, 'medium' for 10000 <= d < 30000 and 'long' for
\* d >= 30000.
C16_DistanceBuckets ==
    (calc.fn = "getDistanceContext" /\ calc.applied = 1) =>
        LET d == IF calc.arg.type = "undefined" THEN 0 ELSE calc.arg.num
            context == calc.out[1]
        IN /\ context \in {"nearby", "short", "medium", "long"}
           /\ context = "nearby" <=> d < 3000
           /\ context = "short" <=> (3000 <= d /\ d < 10000)
           /\ context = "medium" <=> (10000 <= d /\ d < 30000)
           /\ context = "long" <=> d >= 30000

\* the function has been applied at a threshold: exactly three kilometres
\* is 'short'
C16_Witness ==
    /\ calc.fn = "getDistanceContext" /\ calc.applied = 1
    /\ calc.arg = Num(3000)
    /\ calc.out = <<"short">>

\* s contains the word, upper and lower case taken as equal
ContainsIgnoringCase(s, word) ==
    \E i \in 1..(Len(s) - Len(word) + 1) :
        \A j \in 1..Len(word) : LowerChar(s[i + j - 1]) = LowerChar(word[j])

\* C17: addLocationQualifier returns s + ', Lagos, Nigeria' when s
\* contains, case-insensitively, one of the twenty Lagos area names and does
\* not contain 'lagos'; otherwise s + ', Nigeria' when s does not contain
\* 'nigeria'; otherwise s.  'Ikeja' gives 'Ikeja, Lagos, Nigeria',
\* 'Lekki, Lagos' gives 'Lekki, Lagos, Nigeria', 'Paris' gives
\* 'Paris, Nigeria'; the result always contains 'nigeria', and applying the
\* function to its own result changes nothing.
C17_LocationQualifier ==
    (calc.fn = "addLocationQualifier" /\ calc.applied >= 1) =>
        LET s == calc.arg
            result == calc.out[1]
            inLagos == /\ \E area \in lagosAreas : ContainsIgnoringCase(s, area)
                       /\ ~ContainsIgnoringCase(s, <<"l","a","g","o","s">>)
        IN /\ Cardinality(lagosAreas) = 20
           /\ inLagos => result = s \o <<","," ","L","a","g","o","s",","," ","N","i","g","e","r","i","a">>
           /\ (~inLagos /\ ~ContainsIgnoringCase(s, <<"n","i","g","e","r","i","a">>)) =>
                 result = s \o <<","," ","N","i","g","e","r","i","a">>
           /\ (~inLagos /\ ContainsIgnoringCase(s, <<"n","i","g","e","r","i","a">>)) => result = s
           /\ s = <<"I","k","e","j","a">> =>
                 result = <<"I","k","e","j","a",","," ","L","a","g","o","s",","," ","N","i","g","e","r","i","a">>
           /\ s = <<"L","e","k","k","i",","," ","L","a","g","o","s">> =>
                 result = <<"L","e","k","k","i",","," ","L","a","g","o","s",","," ","N","i","g","e","r","i","a">>
           /\ s = <<"P","a","r","i","s">> =>
                 result = <<"P","a","r","i","s",","," ","N","i","g","e","r","i","a">>
           /\ ContainsIgnoringCase(result, <<"n","i","g","e","r","i","a">>)
           /\ calc.applied = 2 => calc.out[2] = result

\* the function has been applied twice to a location that names a Lagos
\* area in capitals and not Lagos
C17_Witness ==
    /\ calc.fn = "addLocationQualifier" /\ calc.applied = 2
    /\ calc.arg = <<"V","I","C","T","O","R","I","A"," ","I","S","L","A","N","D">>
    /\ calc.out[1] = calc.arg \o <<","," ","L","a","g","o","s",","," ","N","i","g","e","r","i","a">>
    /\ calc.out[2] = calc.out[1]

FourModes == {<<"car">>, <<"bike">>, <<"bus">>, <<"train">>}

\* the travel parameters the spec's table gives for a mode
TravelParameters(mode) ==
    IF mode = <<"bike">> THEN [mode |-> "DRIVING", avoid |-> <<"highways">>, transit_mode |-> <<>>]
    ELSE IF mode = <<"car">> THEN [mode |-> "DRIVING", avoid |-> <<>>, transit_mode |-> <<>>]
    ELSE IF mode = <<"bus">> THEN [mode |-> "TRANSIT", avoid |-> <<>>, transit_mode |-> <<"BUS">>]
    ELSE IF mode = <<"train">> THEN [mode |-> "TRANSIT", avoid |-> <<>>, transit_mode |-> <<"TRAIN">>]
    ELSE [mode |-> "none", avoid |-> <<>>, transit_mode |-> <<>>]

\* C18: for every successful extraction the returned mode is one of car,
\* bike, bus and train, 'car' when the reply gives no mode, and modeConfig
\* is the table entry of that mode, so the mode reported to the formatters
\* agrees with the travel parameters sent to the directions provider.
C18_ModeAgreesWithParameters ==
    (calc.fn = "extractLocationsAndMode" /\ calc.applied = 1) =>
        LET result == calc.out[1] IN
        /\ result.mode \in FourModes
        /\ Falsy(calc.arg) => result.mode = <<"car">>
        /\ result.params = TravelParameters(result.mode)

====
